---- MODULE Spec2Model ----
(***************************************************************************)
(* Model of the PPTXInHTMLOut converter (src/src/index.js).                *)
(*                                                                         *)
(* A package is the set of zip entries the converter reads.  A converter   *)
(* instance holds this.zip and the this.slides accumulator; every toHTML   *)
(* call is a chain of steps separated by the awaits of the code.  The HTML *)
(* string is a sequence of tokens, one token per markup piece or text.     *)
(***************************************************************************)
EXTENDS Integers, Sequences, FiniteSets, TLC

\* ------------------------------------------------------------------ bounds
\* Largest number of slide parts in a package.
MaxSlides == 2
\* Number of toHTML calls made by the caller.
MaxCalls == 2

\* Numeric indexes a slide file name may carry (slide1.xml, slide2.xml, slide10.xml).
SlideNums == {1, 2, 10}
CallIds == 1..MaxCalls

\* ------------------------------------------------------------ basic helpers
RECURSIVE Flat(_)
Flat(ss) == IF ss = <<>> THEN <<>> ELSE Head(ss) \o Flat(Tail(ss))

RECURSIVE CountOf(_, _)
CountOf(s, x) ==
  IF s = <<>> THEN 0 ELSE (IF Head(s) = x THEN 1 ELSE 0) + CountOf(Tail(s), x)

Last(s) == s[Len(s)]

\* ------------------------------------------------------- slide file names
\* Decimal digits of n, most significant first.
RECURSIVE Digits(_)
Digits(n) == IF n < 10 THEN <<n>> ELSE Digits(n \div 10) \o <<n % 10>>

\* UTF-16 code units of the part of 'ppt/slides/slide<n>.xml' after the common
\* prefix 'ppt/slides/slide': the digits, then '.xml'.
SlideFileName(n) ==
  [i \in 1..Len(Digits(n)) |-> 48 + Digits(n)[i]] \o <<46, 120, 109, 108>>

\* String comparison of Array.prototype.sort() without a comparator: by code
\* unit, a proper prefix first.
RECURSIVE StrLess(_, _)
StrLess(a, b) ==
  IF b = <<>> THEN FALSE
  ELSE IF a = <<>> THEN TRUE
  ELSE IF Head(a) # Head(b) THEN Head(a) < Head(b)
  ELSE StrLess(Tail(a), Tail(b))

\* slideFiles.sort(): the slide numbers of S ordered by their file names.
RECURSIVE SortByName(_)
SortByName(S) ==
  IF S = {} THEN <<>>
  ELSE LET m == CHOOSE x \in S :
                  \A y \in S \ {x} : StrLess(SlideFileName(x), SlideFileName(y))
       IN  <<m>> \o SortByName(S \ {m})

\* ---------------------------------------------------------- slide markup
\* A shape-tree element as it stands in the slide part, in document order.
Sp(paras) ==
  [tag |-> "sp", txBody |-> TRUE, paragraphs |-> paras, embed |-> "", children |-> <<>>]
SpNoText ==
  [tag |-> "sp", txBody |-> FALSE, paragraphs |-> <<>>, embed |-> "", children |-> <<>>]
Pic(rId) ==
  [tag |-> "pic", txBody |-> FALSE, paragraphs |-> <<>>, embed |-> rId, children |-> <<>>]
GrpSp(kids) ==
  [tag |-> "grpSp", txBody |-> FALSE, paragraphs |-> <<>>, embed |-> "", children |-> kids]

\* Slide parts: kind "malformed" is markup the XML parser rejects, "noSld" a
\* document whose root is not p:sld, "noSpTree" a p:sld without p:cSld/p:spTree,
\* "sld" a slide with the given shape-tree children.
Malformed == [kind |-> "malformed", shapes |-> <<>>]
NoSld == [kind |-> "noSld", shapes |-> <<>>]
NoSpTree == [kind |-> "noSpTree", shapes |-> <<>>]
Sld(shapes) == [kind |-> "sld", shapes |-> shapes]

TextSlide ==
  Sld(<< Sp(<< <<"Hello">>, <<"World">> >>), SpNoText, Sp(<< <<"A", "B">>, <<>> >>) >>)
MixedSlide ==
  Sld(<< Pic("rId1"), GrpSp(<< Sp(<< <<"In">> >>) >>), Sp(<< <<"Out">> >>),
         Pic(""), Pic("rId2") >>)
SlideMarkups == {Malformed, NoSld, NoSpTree, TextSlide, MixedSlide}

\* parseStringPromise (xml2js, default options): throws on malformed markup.
Parses(markup) == markup.kind # "malformed"

SelectTag(shapes, t) == SelectSeq(shapes, LAMBDA e : e.tag = t)

\* parseStringPromise (xml2js, default options): children are grouped by tag
\* name, each group an array in document order; the order between elements of
\* different tags is not kept.
ParseXml(markup) ==
  [sld    |-> markup.kind \in {"noSpTree", "sld"},
   spTree |-> markup.kind = "sld",
   sp     |-> SelectTag(markup.shapes, "sp"),
   pic    |-> SelectTag(markup.shapes, "pic"),
   grpSp  |-> SelectTag(markup.shapes, "grpSp")]

\* ------------------------------------------------------------- packages
\* Relationship targets are relative paths, kept as their '/'-separated segments.
Image1 == "image1.png"
Image2 == "image2.png"
TargetOf(name) == <<"..", "media", name>>
BothRels == ("rId1" :> TargetOf(Image1)) @@ ("rId2" :> TargetOf(Image2))
OnlyRId2 == ("rId2" :> TargetOf(Image2))

\* The picture-related entries of a package: whether each slide has a
\* relationship file, the table in it, the media entries, and what the OCR
\* engine does with each media entry ("workerError": createWorker rejects,
\* "recognizeError": recognize rejects, otherwise the recognized text).
PicEnv(hasFile, table, media, ocr1) ==
  [relsFile |-> hasFile, rels |-> table, media |-> media,
   ocr |-> (Image1 :> ocr1) @@ (Image2 :> "Two")]
EnvOk == PicEnv(TRUE, BothRels, {Image1, Image2}, "One")
PicEnvs ==
  { EnvOk,
    PicEnv(FALSE, BothRels, {Image1, Image2}, "One"),
    PicEnv(TRUE, OnlyRId2, {Image1, Image2}, "One"),
    PicEnv(TRUE, BothRels, {Image2}, "One"),
    PicEnv(TRUE, BothRels, {Image1, Image2}, "workerError"),
    PicEnv(TRUE, BothRels, {Image1, Image2}, "recognizeError"),
    PicEnv(TRUE, BothRels, {Image1, Image2}, "") }

\* The slide parts of a package: a markup for each of at most MaxSlides numbers.
SlideSets == {S \in SUBSET SlideNums : Cardinality(S) <= MaxSlides}

\* A package: isZip (the buffer is a zip archive), rootRels ('_rels/.rels'
\* present), presentation ('ppt/presentation.xml' present), the slide parts
\* 'ppt/slides/slide<n>.xml', the relationship file of each slide
\* 'ppt/slides/_rels/slide<n>.xml.rels', the entries under 'ppt/media/' and
\* the OCR engine's answer for each.
MkPackage(z, r, p, slides, env) ==
  [isZip |-> z, rootRels |-> r, presentation |-> p, slides |-> slides,
   slideRels |-> [n \in DOMAIN slides |-> [exists |-> env.relsFile, table |-> env.rels]],
   media |-> env.media, ocr |-> env.ocr]
NotAZip == MkPackage(FALSE, FALSE, FALSE, <<>>, EnvOk)
SlideParts == UNION {[S -> SlideMarkups] : S \in SlideSets}
Packages ==
  {NotAZip}
  \cup { MkPackage(TRUE, r, p, sl, EnvOk) : r \in BOOLEAN, p \in BOOLEAN, sl \in SlideParts }
  \cup { MkPackage(TRUE, TRUE, TRUE, sl, env) : sl \in SlideParts, env \in PicEnvs }

\* ------------------------------------------------------------ validation
\* validatePPTX: TRUE when it returns, FALSE when it throws 'Invalid PPTX file'.
validatePPTX(p) ==
  /\ p.presentation
  /\ p.rootRels
  /\ DOMAIN p.slides # {}

\* ------------------------------------------------------------- rendering
\* `${text}` interpolation: an empty text adds nothing to the string.
Interpolate(text) == IF text = "" THEN <<>> ELSE <<text>>

\* A renderer that takes paragraph['a:r'] for one run, not an array of runs.
RunsHTMLFirstOnly(runs) ==
  IF runs = <<>> THEN <<>>
  ELSE <<"<span>">> \o Interpolate(runs[1]) \o <<"</span>">>

\* Lines 204-207: one span per run, in the order of paragraph['a:r'].
RunsHTML(runs) ==
  Flat([i \in 1..Len(runs) |-> <<"<span>">> \o Interpolate(runs[i]) \o <<"</span>">>])

\* Lines 198-211: one <p> per paragraph, in the order of txBody['a:p'].
ParagraphsHTML(paras) ==
  Flat([i \in 1..Len(paras) |-> <<"<p>">> \o RunsHTML(paras[i]) \o <<"</p>">>])

\* Lines 193-214: a shape with a text body is a div.shape, any other nothing.
ShapeHTML(shape) ==
  IF shape.txBody
    THEN <<"<div class=shape>">> \o ParagraphsHTML(shape.paragraphs) \o <<"</div>">>
    ELSE <<>>

\* Lines 191-216: the shapes of spTree['p:sp'], in array order.
TextShapesHTML(content) ==
  Flat([i \in 1..Len(content.sp) |-> ShapeHTML(content.sp[i])])

\* Guards that stop at p:sld and do not look for the shape-tree.
HasSldOnly(content) == content.sld

\* Lines 169-186: the guards of convertSlideToHTML; FALSE returns ''.
HasSpTree(content) == content.sld /\ content.spTree

SlideOpen == <<"<div class=slide>", "<div class=slide-content>">>
SlideClose == <<"</div>", "</div>">>

\* The value of processImage: { text } or null.
NullImage == [ok |-> FALSE, text |-> ""]

\* A picture fragment written without looking at what processImage returned.
PictureHTMLUnguarded(processedImage) ==
  <<"<div class=picture>", "<p class=ocr-text>">> \o Interpolate(processedImage.text)
  \o <<"</p>", "</div>">>

\* Lines 229-233: the fragment of a picture, given what processImage returned.
PictureHTML(processedImage) ==
  IF processedImage.ok /\ processedImage.text # ""
    THEN <<"<div class=picture>", "<p class=ocr-text>", processedImage.text, "</p>", "</div>">>
    ELSE <<>>

\* getSlideRels: the relationship table of the slide, or null.
getSlideRels(p, slideFile) ==
  IF slideFile \in DOMAIN p.slideRels /\ p.slideRels[slideFile].exists
    THEN [found |-> TRUE, rels |-> p.slideRels[slideFile].table]
    ELSE [found |-> FALSE, rels |-> <<>>]

\* getImageData: the media entry the relationship rId of the slide names,
\* looked up by the last segment of the target, or null.
getImageData(p, slideFile, rId) ==
  LET r == getSlideRels(p, slideFile) IN
  IF ~r.found \/ rId \notin DOMAIN r.rels
    THEN [found |-> FALSE, name |-> ""]
    ELSE LET fullPath == Last(r.rels[rId]) IN
         IF fullPath \in p.media
           THEN [found |-> TRUE, name |-> fullPath]
           ELSE [found |-> FALSE, name |-> ""]

\* createWorker() resolves.
CreateWorkerOk(p, image) == p.ocr[image] # "workerError"

\* Lines 365-369: worker.recognize resolves to { text }, or rejects and the
\* catch returns null.
RecognizeResult(p, image) ==
  IF p.ocr[image] = "recognizeError" THEN NullImage
  ELSE [ok |-> TRUE, text |-> p.ocr[image]]

\* A processImage without the finally block's terminate.
FinallyLeak(live, worker) == live

\* Lines 370-374: the finally block terminates the worker it holds.
Finally(live, worker) == IF worker THEN live - 1 ELSE live

generateStyles ==
  <<"<style>", ".slide", ".slide-content", ".shape", ".text", ".image", "</style>">>

\* Lines 461-470: the document around the slides' HTML.
Document(slidesHTML) ==
  <<"<!DOCTYPE html>", "<html>", "<head>", "<meta charset>", "<meta viewport>", "<title>">>
  \o generateStyles
  \o <<"</head>", "<body>">> \o slidesHTML \o <<"</body>", "</html>">>

\* ----------------------------------------------------------------- state
VARIABLES
  pkg,          \* the package in this.pptxBuffer
  zip,          \* this.zip is loaded
  loadStatus,   \* outcome of the caller's load(): "none", "ok", "threw"
  thisSlides,   \* the array this.slides refers to
  heap,         \* the contents of every slides array, by array
  calls,        \* the toHTML calls, each with its position and locals
  liveWorkers,  \* OCR workers created and not yet terminated
  returned      \* what the completed calls gave their caller, in order

vars == <<pkg, zip, loadStatus, thisSlides, heap, calls, liveWorkers, returned>>

\* toHTML's argument: none, or an object with includeStyles.
NoOptions == [given |-> FALSE, includeStyles |-> FALSE]
OptionValues ==
  {NoOptions, [given |-> TRUE, includeStyles |-> TRUE], [given |-> TRUE, includeStyles |-> FALSE]}

IdleCall ==
  [pc |-> "idle", options |-> NoOptions, slideFiles |-> <<>>, i |-> 0, slides |-> 0,
   k |-> 0, slidesHTML |-> <<>>, html |-> <<>>, picIdx |-> 0, imageData |-> "",
   worker |-> FALSE, processedImage |-> NullImage, result |-> <<>>]

\* The constructor: this.zip = null, this.slides = [] (array 0).
Init ==
  /\ pkg \in Packages
  /\ zip = FALSE
  /\ loadStatus = "none"
  /\ thisSlides = 0
  /\ heap = [a \in 0..MaxCalls |-> <<>>]
  /\ calls = [c \in CallIds |-> IdleCall]
  /\ liveWorkers = 0
  /\ returned = <<>>

Quiet == \A c \in CallIds : calls[c].pc \in {"idle", "returned"}

SetCall(c, r) == calls' = [calls EXCEPT ![c] = r]

\* new PPTXInHTMLOut(pptxBuffer) on the same buffer, between two calls.
Construct ==
  /\ Quiet
  /\ zip
  /\ \E c \in CallIds : calls[c].pc = "idle"
  /\ zip' = FALSE
  /\ loadStatus' = "none"
  /\ thisSlides' = 0
  /\ heap' = [a \in 0..MaxCalls |-> <<>>]
  /\ UNCHANGED <<pkg, calls, liveWorkers, returned>>

\* load() on a fresh converter, awaited by the caller: initialize, then validatePPTX.
Load ==
  /\ Quiet
  /\ ~zip
  /\ loadStatus = "none"
  /\ zip' = pkg.isZip
  /\ loadStatus' = IF pkg.isZip /\ validatePPTX(pkg) THEN "ok" ELSE "threw"
  /\ UNCHANGED <<pkg, thisSlides, heap, calls, liveWorkers, returned>>

\* The caller invokes toHTML(options); calls are numbered in invocation order.
Invoke(c, options) ==
  /\ calls[c].pc = "idle"
  /\ c > 1 => calls[c - 1].pc # "idle"
  /\ SetCall(c, [IdleCall EXCEPT !.pc = "initialize", !.options = options])
  /\ UNCHANGED <<pkg, zip, loadStatus, thisSlides, heap, liveWorkers, returned>>

\* toHTML invoked by a caller that awaits each call before the next one.
ToHTML(c) ==
  /\ Quiet
  /\ \E options \in OptionValues : Invoke(c, options)

\* toHTML() invoked while earlier calls on the same converter are still running.
ToHTMLConcurrent(c) == Invoke(c, NoOptions)

\* Line 444, initialize: JSZip.loadAsync resolves, or rejects and toHTML rethrows.
Initialize(c) ==
  /\ calls[c].pc = "initialize"
  /\ IF pkg.isZip
       THEN /\ zip' = TRUE
            /\ SetCall(c, [calls[c] EXCEPT !.pc = "parseSlides"])
       ELSE /\ zip' = zip
            /\ SetCall(c, [calls[c] EXCEPT !.pc = "threw"])
  /\ UNCHANGED <<pkg, loadStatus, thisSlides, heap, liveWorkers, returned>>

\* A parseSlides that keeps pushing onto the array this.slides already refers to.
KeepSlidesArray(c) == thisSlides

\* Line 137, this.slides = []: the array this.slides refers to from then on is
\* a new one, owned by the call that made it.
FreshSlidesArray(c) == c

\* Lines 133-137 and, without slide files, line 165: the sorted file list,
\* this.slides = [] (a new array), up to the first await.
ParseSlidesBegin(c) ==
  /\ calls[c].pc = "parseSlides"
  /\ LET slideFiles == SortByName(DOMAIN pkg.slides) IN
     /\ heap' = [heap EXCEPT ![c] = <<>>]
     /\ thisSlides' = FreshSlidesArray(c)
     /\ IF slideFiles = <<>>
          THEN SetCall(c, [calls[c] EXCEPT !.pc = "generateHTML",
                                            !.slides = FreshSlidesArray(c), !.k = 1])
          ELSE SetCall(c, [calls[c] EXCEPT !.pc = "parseLoop",
                                            !.slideFiles = slideFiles, !.i = 1])
  /\ UNCHANGED <<pkg, zip, loadStatus, liveWorkers, returned>>

\* Lines 139-156 for one slide file: read, parse, push onto the array this.slides
\* refers to at that moment, or log the parse error; after the last file,
\* line 165 returns the array this.slides refers to.
ParseSlideFile(c) ==
  /\ calls[c].pc = "parseLoop"
  /\ LET slideFile == calls[c].slideFiles[calls[c].i]
         markup == pkg.slides[slideFile]
     IN
     /\ heap' = IF Parses(markup)
                  THEN [heap EXCEPT ![thisSlides] =
                          Append(@, [file |-> slideFile, content |-> ParseXml(markup)])]
                  ELSE heap
     /\ IF calls[c].i = Len(calls[c].slideFiles)
          THEN SetCall(c, [calls[c] EXCEPT !.pc = "generateHTML", !.slides = thisSlides,
                                            !.k = 1, !.slideFiles = <<>>, !.i = 0])
          ELSE SetCall(c, [calls[c] EXCEPT !.i = @ + 1])
  /\ UNCHANGED <<pkg, zip, loadStatus, thisSlides, liveWorkers, returned>>

\* The slide generateHTML is at.
CurrentSlide(c) == heap[calls[c].slides][calls[c].k]

\* Lines 456-457 and 169-216: the next slide of the array, if any; a slide
\* the guards reject adds '', any other starts its HTML with the text shapes.
ConvertSlide(c) ==
  /\ calls[c].pc = "generateHTML"
  /\ calls[c].k <= Len(heap[calls[c].slides])
  /\ LET content == CurrentSlide(c).content IN
     IF HasSpTree(content)
       THEN SetCall(c, [calls[c] EXCEPT !.pc = "pictures", !.picIdx = 1,
                          !.html = SlideOpen \o TextShapesHTML(content)])
       ELSE SetCall(c, [calls[c] EXCEPT !.k = @ + 1])
  /\ UNCHANGED <<pkg, zip, loadStatus, thisSlides, heap, liveWorkers, returned>>

\* Lines 220-227: the next picture of spTree['p:pic']: its embed id and image data.
ConvertPicture(c) ==
  /\ calls[c].pc = "pictures"
  /\ calls[c].picIdx <= Len(CurrentSlide(c).content.pic)
  /\ LET rId == CurrentSlide(c).content.pic[calls[c].picIdx].embed
         imageData == getImageData(pkg, CurrentSlide(c).file, rId)
     IN
     IF rId # "" /\ imageData.found
       THEN SetCall(c, [calls[c] EXCEPT !.pc = "createWorker", !.imageData = imageData.name])
       ELSE SetCall(c, [calls[c] EXCEPT !.picIdx = @ + 1])
  /\ UNCHANGED <<pkg, zip, loadStatus, thisSlides, heap, liveWorkers, returned>>

\* Lines 362-364: createWorker resolves to a new worker, or rejects: then the
\* catch returns null and the finally block has no worker to terminate.
CreateWorker(c) ==
  /\ calls[c].pc = "createWorker"
  /\ IF CreateWorkerOk(pkg, calls[c].imageData)
       THEN /\ liveWorkers' = liveWorkers + 1
            /\ SetCall(c, [calls[c] EXCEPT !.pc = "recognize", !.worker = TRUE])
       ELSE /\ liveWorkers' = Finally(liveWorkers, calls[c].worker)
            /\ SetCall(c, [calls[c] EXCEPT !.pc = "pictures", !.picIdx = @ + 1,
                             !.imageData = "",
                             !.html = @ \o PictureHTML(NullImage)])
  /\ UNCHANGED <<pkg, zip, loadStatus, thisSlides, heap, returned>>

\* Lines 365-369: worker.recognize.
Recognize(c) ==
  /\ calls[c].pc = "recognize"
  /\ SetCall(c, [calls[c] EXCEPT !.pc = "terminate",
                   !.processedImage = RecognizeResult(pkg, calls[c].imageData)])
  /\ UNCHANGED <<pkg, zip, loadStatus, thisSlides, heap, liveWorkers, returned>>

\* Lines 370-374 and 229-233: the finally block, then the picture's fragment.
Terminate(c) ==
  /\ calls[c].pc = "terminate"
  /\ liveWorkers' = Finally(liveWorkers, calls[c].worker)
  /\ SetCall(c, [calls[c] EXCEPT !.pc = "pictures", !.picIdx = @ + 1,
                   !.imageData = "", !.worker = FALSE, !.processedImage = NullImage,
                   !.html = @ \o PictureHTML(calls[c].processedImage)])
  /\ UNCHANGED <<pkg, zip, loadStatus, thisSlides, heap, returned>>

\* Lines 239-240 and 458: after the last picture the slide's HTML is closed
\* and added to slidesHTML.
FinishSlide(c) ==
  /\ calls[c].pc = "pictures"
  /\ calls[c].picIdx > Len(CurrentSlide(c).content.pic)
  /\ SetCall(c, [calls[c] EXCEPT !.pc = "generateHTML", !.k = @ + 1, !.picIdx = 0,
                   !.html = <<>>,
                   !.slidesHTML = @ \o calls[c].html \o SlideClose])
  /\ UNCHANGED <<pkg, zip, loadStatus, thisSlides, heap, liveWorkers, returned>>

\* Lines 461-470 and 447: past the end of the array, the document is returned.
GenerateDocument(c) ==
  /\ calls[c].pc = "generateHTML"
  /\ calls[c].k > Len(heap[calls[c].slides])
  /\ SetCall(c, [calls[c] EXCEPT !.pc = "done", !.slidesHTML = <<>>,
                   !.result = Document(calls[c].slidesHTML)])
  /\ UNCHANGED <<pkg, zip, loadStatus, thisSlides, heap, liveWorkers, returned>>

\* The caller's await of toHTML: the HTML string, or the rethrown error.
Return(c) ==
  /\ calls[c].pc \in {"done", "threw"}
  /\ returned' = Append(returned, [ok |-> calls[c].pc = "done", html |-> calls[c].result])
  /\ SetCall(c, [IdleCall EXCEPT !.pc = "returned"])
  /\ UNCHANGED <<pkg, zip, loadStatus, thisSlides, heap, liveWorkers>>

Step(c) ==
  \/ Initialize(c)
  \/ ParseSlidesBegin(c)
  \/ ParseSlideFile(c)
  \/ ConvertSlide(c)
  \/ ConvertPicture(c)
  \/ CreateWorker(c)
  \/ Recognize(c)
  \/ Terminate(c)
  \/ FinishSlide(c)
  \/ GenerateDocument(c)
  \/ Return(c)

\* One converter at a time, each toHTML awaited before the next call.
Next ==
  \/ Construct
  \/ Load
  \/ \E c \in CallIds : ToHTML(c)
  \/ \E c \in CallIds : Step(c)

Spec == Init /\ [][Next]_vars

\* One converter, toHTML called again before the earlier call has completed.
NextConcurrent ==
  \/ \E c \in CallIds : ToHTMLConcurrent(c)
  \/ \E c \in CallIds : Step(c)

\* The packages of the concurrent runs: every required entry present, every
\* picture resolvable.
InitConcurrent ==
  /\ Init
  /\ pkg.isZip /\ pkg.rootRels /\ pkg.presentation
  /\ pkg = MkPackage(TRUE, TRUE, TRUE, pkg.slides, EnvOk)

SpecConcurrent == InitConcurrent /\ [][NextConcurrent]_vars

\* ------------------------------------------------- sequential reference
\* Lines 220-236 run to completion for one picture of a slide.
PictureFragment(p, slideFile, pic) ==
  LET imageData == getImageData(p, slideFile, pic.embed) IN
  IF pic.embed # "" /\ imageData.found /\ CreateWorkerOk(p, imageData.name)
    THEN PictureHTML(RecognizeResult(p, imageData.name))
    ELSE PictureHTML(NullImage)

\* convertSlideToHTML run to completion on the parsed slide part slideFile.
convertSlideToHTML(p, slideFile) ==
  LET content == ParseXml(p.slides[slideFile]) IN
  IF ~HasSpTree(content) THEN <<>>
  ELSE SlideOpen \o TextShapesHTML(content)
       \o Flat([i \in 1..Len(content.pic) |-> PictureFragment(p, slideFile, content.pic[i])])
       \o SlideClose

\* toHTML run alone to completion on a fresh converter of package p.
toHTML(p) ==
  LET parsed == SelectSeq(SortByName(DOMAIN p.slides), LAMBDA n : Parses(p.slides[n]))
  IN  Document(Flat([i \in 1..Len(parsed) |-> convertSlideToHTML(p, parsed[i])]))

\* ------------------------------------------------------ claim vocabulary
Done(c) == calls[c].pc = "done"
Threw(c) == calls[c].pc = "threw"

\* The slide numbers of S in ascending numeric order.
RECURSIVE Ascending(_)
Ascending(S) ==
  IF S = {} THEN <<>>
  ELSE LET m == CHOOSE x \in S : \A y \in S : x <= y
       IN  <<m>> \o Ascending(S \ {m})

WellFormed(p, n) == p.slides[n].kind = "sld"
AllWellFormed(p) == \A n \in DOMAIN p.slides : WellFormed(p, n)
Contains(html, token) == \E i \in 1..Len(html) : html[i] = token

\* The package lacks '_rels/.rels', 'ppt/presentation.xml' or any slide part.
LacksRequiredEntry(p) ==
  \/ ~p.rootRels
  \/ ~p.presentation
  \/ DOMAIN p.slides = {}

\* C1: a toHTML call on a package that lacks a required entry never completes
\* with an HTML string.
C1_MissingEntryFails ==
  \A c \in CallIds : (pkg.isZip /\ LacksRequiredEntry(pkg)) => ~Done(c)

\* C2: for a valid package of N well-formed slide parts, the returned HTML
\* holds exactly N slide containers, those of the slides in ascending order
\* of the number in the file name.
C2_NumericSlideOrder ==
  \A c \in CallIds :
    (Done(c) /\ ~LacksRequiredEntry(pkg) /\ AllWellFormed(pkg)) =>
      LET order == Ascending(DOMAIN pkg.slides) IN
      /\ CountOf(calls[c].result, "<div class=slide>") = Cardinality(DOMAIN pkg.slides)
      /\ calls[c].result =
           Document(Flat([i \in 1..Len(order) |-> convertSlideToHTML(pkg, order[i])]))

\* C3: the returned document holds the <style> block exactly when
\* options.includeStyles is omitted or true.
C3_StylesIffEnabled ==
  \A c \in CallIds :
    Done(c) =>
      (Contains(calls[c].result, "<style>")
         <=> (~calls[c].options.given \/ calls[c].options.includeStyles))

\* The HTML of the shape-tree children in document order, depth first: a text
\* shape's div, a picture's fragment, a group's children at the group's place.
RECURSIVE DepthFirstHTML(_, _, _)
DepthFirstHTML(p, slideFile, shapes) ==
  IF shapes = <<>> THEN <<>>
  ELSE LET e == Head(shapes) IN
       (CASE e.tag = "sp" -> ShapeHTML(e)
          [] e.tag = "pic" -> PictureFragment(p, slideFile, e)
          [] OTHER -> DepthFirstHTML(p, slideFile, e.children))
       \o DepthFirstHTML(p, slideFile, Tail(shapes))

\* C8: the HTML of every slide is the depth-first, document-order sequence
\* of the fragments of its shapes, group children at the group's position.
C8_DocumentOrderTraversal ==
  \A c \in CallIds :
    (Done(c) /\ AllWellFormed(pkg)) =>
      LET order == SortByName(DOMAIN pkg.slides) IN
      calls[c].result =
        Document(Flat([i \in 1..Len(order) |->
          SlideOpen \o DepthFirstHTML(pkg, order[i], pkg.slides[order[i]].shapes)
                    \o SlideClose]))

\* C10: every toHTML call, also one overlapping another call on the same
\* converter, returns the HTML a call run alone returns.
C10_OverlappingCallsAgree ==
  \A c \in CallIds : Done(c) => calls[c].result = toHTML(pkg)

\* A resolution step of the picture fails: the slide has no relationship
\* file, the table lacks the embed id, the target's file has no media entry,
\* or the recognition call (worker creation or recognize) fails.
ResolutionFails(p, n, pic) ==
  \/ ~p.slideRels[n].exists
  \/ pic.embed \notin DOMAIN p.slideRels[n].table
  \/ Last(p.slideRels[n].table[pic.embed]) \notin p.media
  \/ p.ocr[Last(p.slideRels[n].table[pic.embed])] \in {"workerError", "recognizeError"}

\* The fragment of a picture whose every resolution step succeeds.
RecognizedFragment(p, n, pic) ==
  LET text == p.ocr[Last(p.slideRels[n].table[pic.embed])] IN
  IF text = "" THEN <<>>
  ELSE <<"<div class=picture>", "<p class=ocr-text>", text, "</p>", "</div>">>

\* The HTML of a well-formed slide whose failing pictures add nothing.
DegradedSlideHTML(p, n) ==
  LET content == ParseXml(p.slides[n]) IN
  SlideOpen \o TextShapesHTML(content)
  \o Flat([i \in 1..Len(content.pic) |->
            IF ResolutionFails(p, n, content.pic[i]) THEN <<>>
            ELSE RecognizedFragment(p, n, content.pic[i])])
  \o SlideClose

\* C4: a picture with a failing resolution step makes no toHTML call throw and
\* adds nothing to the HTML, no recognized text included, while the container
\* of its slide, the slide's other fragments and all other slides are emitted.
C4_FailingPictureDegrades ==
  \A c \in CallIds :
    /\ pkg.isZip => ~Threw(c)
    /\ Done(c) =>
         LET order == SelectSeq(SortByName(DOMAIN pkg.slides),
                                LAMBDA n : WellFormed(pkg, n))
         IN  calls[c].result =
               Document(Flat([i \in 1..Len(order) |-> DegradedSlideHTML(pkg, order[i])]))

\* A call has completed on a two-slide package in which a slide with text
\* and two pictures has a picture whose resolution fails.
C4_Witness ==
  \E c \in CallIds :
    /\ Done(c)
    /\ Cardinality(DOMAIN pkg.slides) = 2
    /\ \E n \in DOMAIN pkg.slides :
         /\ pkg.slides[n] = MixedSlide
         /\ ResolutionFails(pkg, n, Pic("rId1"))
         /\ ~ResolutionFails(pkg, n, Pic("rId2"))
    /\ Contains(calls[c].result, "Two")

\* C5: all completed toHTML calls on the same input, on one converter or on
\* fresh ones, give their caller the same result.
C5_RepeatedCallsAgree ==
  \A i \in DOMAIN returned : \A j \in DOMAIN returned : returned[i] = returned[j]

\* Two calls have completed one after the other on the same converter, on a
\* package with slides.
C5_Witness ==
  /\ Len(returned) = 2
  /\ returned[1].ok
  /\ Contains(returned[2].html, "<div class=slide>")
  /\ heap[1] # <<>>
  /\ thisSlides = 2

\* The paragraphs of the HTML: for each <p> ... </p>, the texts of its spans.
RECURSIVE SpansOf(_)
SpansOf(h) ==
  IF Len(h) < 2 THEN <<>>
  ELSE IF Head(h) # "<span>" THEN SpansOf(Tail(h))
  ELSE IF h[2] = "</span>" THEN <<"">> \o SpansOf(SubSeq(h, 3, Len(h)))
  ELSE <<h[2]>> \o SpansOf(SubSeq(h, 3, Len(h)))

RECURSIVE ParagraphsOf(_)
ParagraphsOf(h) ==
  IF h = <<>> THEN <<>>
  ELSE IF Head(h) # "<p>" THEN ParagraphsOf(Tail(h))
  ELSE LET end == CHOOSE i \in 2..Len(h) :
                    h[i] = "</p>" /\ \A j \in 2..(i - 1) : h[j] # "</p>"
       IN  <<SpansOf(SubSeq(h, 2, end - 1))>> \o ParagraphsOf(SubSeq(h, end + 1, Len(h)))

\* The paragraphs, each the texts of its runs, of the text shapes of a slide
\* part's shape-tree, in the order of the markup.
SourceParagraphs(markup) ==
  Flat([i \in 1..Len(markup.shapes) |->
         IF markup.shapes[i].tag = "sp" /\ markup.shapes[i].txBody
           THEN markup.shapes[i].paragraphs ELSE <<>>])

TextShapeCount(markup) ==
  Len(SelectSeq(markup.shapes, LAMBDA e : e.tag = "sp" /\ e.txBody))

WithoutMalformed(p) ==
  LET keep == {n \in DOMAIN p.slides : WellFormed(p, n)} IN
  [p EXCEPT !.slides = [n \in keep |-> p.slides[n]],
            !.slideRels = [n \in keep |-> p.slideRels[n]]]

\* C7: a slide part that fails to parse or lacks its p:sld or shape-tree
\* makes no toHTML call throw, and the returned document is the one of the
\* package without that slide part: the malformed slide adds nothing.
C7_MalformedSlideIsolated ==
  \A c \in CallIds :
    /\ pkg.isZip => ~Threw(c)
    /\ Done(c) => calls[c].result = toHTML(WithoutMalformed(pkg))

\* A call has completed on a package with a malformed slide part sorted
\* before a well-formed one.
C7_Witness ==
  \E c \in CallIds :
    /\ Done(c)
    /\ \E m, n \in DOMAIN pkg.slides :
         /\ ~WellFormed(pkg, m) /\ WellFormed(pkg, n)
         /\ StrLess(SlideFileName(m), SlideFileName(n))
    /\ Contains(calls[c].result, "<div class=slide>")

\* C9: the live OCR workers are those of the processImage invocations under
\* way, one each; none is live once no toHTML call is under way.
C9_WorkersReleased ==
  /\ liveWorkers = Cardinality({c \in CallIds : calls[c].pc \in {"recognize", "terminate"}})
  /\ (\A c \in CallIds : calls[c].pc \in {"idle", "done", "threw", "returned"})
       => liveWorkers = 0

\* A call has completed after a recognition that failed and one that succeeded.
C9_Witness ==
  \E c \in CallIds :
    /\ Done(c)
    /\ liveWorkers = 0
    /\ \E n \in DOMAIN pkg.slides :
         /\ pkg.slides[n] = MixedSlide
         /\ getImageData(pkg, n, "rId1").found
         /\ pkg.ocr[Image1] = "recognizeError"
    /\ Contains(calls[c].result, "Two")

====
